---- MODULE Spec2Model ----
(***************************************************************************)
(* create-chrome-extension: the interactive generator of src/index.ts.     *)
(*                                                                         *)
(* main() is one async function.  Every await of a prompt   is a step of   *)
(* the model (the only points where the function is suspended); the code   *)
(* after the last await (the confirmation) runs synchronously to the end   *)
(* and is the single step Generate, composed of one operator per block of  *)
(* the source, applied in source order.                                    *)
(*                                                                         *)
(* JavaScript strings typed by the user are sequences of characters, so    *)
(* that trim(), toLowerCase() and replace(/\s+/g, '-') are computed; Str    *)
(* gives the TLA+ string where one is written to a path or to a file.      *)
(* JavaScript objects are functions from keys to values; an absent key is  *)
(* outside the DOMAIN.                                                     *)
(* Text files are sequences of lines.  The file system is a function from  *)
(* paths (sequences of segments, relative to process.cwd()) to entries.    *)
(***************************************************************************)
EXTENDS Integers, Sequences, FiniteSets, TLC

\* Largest number of build options the user ticks in the last multiselect.
MaxBuildSel == 2
\* How many times dependencies are resolved against the same package.json.
MaxResolves == 2

----------------------------------------------------------------------------
(* JavaScript strings *)

\* What the user types as the extension name: nothing, blanks, the name of a
\* directory that exists, and a new name with blanks around and inside it.
NameTexts == {<<>>, <<" ">>, <<"A">>, <<" ", "A", " ">>, <<" ", "A", " ", " ", "B", " ">>}

\* What the user types as the description.
DescriptionTexts == {<<>>, <<" ">>, <<" ", " ">>, <<"A">>, <<" ", "A">>}

IsSpace(c) == c = " "

RECURSIVE TrimStart(_)
TrimStart(s) ==
  IF s # <<>> /\ IsSpace(Head(s)) THEN TrimStart(Tail(s)) ELSE s

RECURSIVE TrimEnd(_)
TrimEnd(s) ==
  IF s # <<>> /\ IsSpace(s[Len(s)]) THEN TrimEnd(SubSeq(s, 1, Len(s) - 1)) ELSE s

RECURSIVE Str(_)
Str(s) == IF s = <<>> THEN "" ELSE Head(s) \o Str(Tail(s))

\* String.prototype.trim
Trim(s) == TrimEnd(TrimStart(s))

\* String.prototype.toLowerCase
ToLowerCase(s) ==
  [i \in 1..Len(s) |-> CASE s[i] = "A" -> "a" [] s[i] = "B" -> "b" [] OTHER -> s[i]]

\* s.replace(/\s+/g, '-'): every maximal run of whitespace becomes one '-'
RECURSIVE ReplaceWs(_)
ReplaceWs(s) ==
  IF s = <<>> THEN <<>>
  ELSE IF IsSpace(Head(s)) THEN <<"-">> \o ReplaceWs(TrimStart(s))
  ELSE <<Head(s)>> \o ReplaceWs(Tail(s))

----------------------------------------------------------------------------
(* JavaScript objects *)

EmptyObj == <<>>

Has(obj, k) == k \in DOMAIN obj

Put(obj, k, v) == [x \in DOMAIN obj \cup {k} |-> IF x = k THEN v ELSE obj[x]]

\* obj[k] || d, for a string-valued entry: undefined and '' are falsy
OrStr(obj, k, d) == IF Has(obj, k) /\ obj[k] # "" THEN obj[k] ELSE d

\* obj[k] || {}, for an object-valued entry: every object is truthy
OrObj(obj, k) == IF Has(obj, k) THEN obj[k] ELSE EmptyObj

----------------------------------------------------------------------------
(* Prompt results (@clack/prompts): a value, or the cancel symbol *)

Cancel == [type |-> "symbol"]

TextResults(texts) == {[type |-> "string", value |-> s] : s \in texts} \cup {Cancel}

SelectResults(values, type) == {[type |-> type, value |-> v] : v \in values} \cup {Cancel}

ConfirmResults == {[type |-> "boolean", value |-> b] : b \in BOOLEAN} \cup {Cancel}

\* Array.isArray(raw) ? raw : []
ArrayOrEmpty(raw) == IF raw.type = "array" THEN raw.value ELSE {}

\* JavaScript truthiness of a confirm() result: a symbol is truthy
Truthy(raw) == IF raw.type = "boolean" THEN raw.value ELSE TRUE

PermissionSelections == SUBSET {"storage"}

FeatureOptions == {"background", "content", "popup", "options", "devtools"}

BuildOptionValues ==
  {"package", "bundler-webpack", "bundler-rollup", "jquery-npm", "jquery-cdn",
   "esmodules", "none"}

BuildSelections == {b \in SUBSET BuildOptionValues : Cardinality(b) <= MaxBuildSel}

\* What the user types at an icon prompt: a path for the 16x16 icon at most,
\* the other two are left blank
IconTexts(size) == IF size = "16" THEN {<<>>, <<" ">>, <<" ", "A">>} ELSE {<<>>, <<" ">>}

PopupLangs == {"html", "ts", "react"}

ScriptLangs == {"js", "ts"}

----------------------------------------------------------------------------
(* The program state *)

VARIABLES
  pc,                    \* the await main() is suspended at, or "done"
  outcome,               \* "running", or how the process ended
  extensionName,         \* trimmed, as a character sequence
  extensionDescription,  \* trimmed, as a string
  manifestVersion,
  permissions,
  icons,
  additionalFeatures,
  popupLang,
  backgroundLang,
  contentLang,
  useSrcFolder,          \* the truthiness of the confirm() result
  buildOptionsRaw,       \* what the multiselect returned (line 160)
  buildOptions,          \* the array after the "none" override (line 176)
  manifest,              \* the manifest object as serialized at line 369
  fs,                    \* the file system below process.cwd()
  log                    \* the file system calls that took effect or read, in order

vars == <<pc, outcome, extensionName, extensionDescription, manifestVersion,
          permissions, icons, additionalFeatures, popupLang, backgroundLang,
          contentLang, useSrcFolder, buildOptionsRaw, buildOptions, manifest,
          fs, log>>

answers == <<extensionName, extensionDescription, manifestVersion, permissions,
             icons, additionalFeatures, popupLang, backgroundLang, contentLang,
             useSrcFolder, buildOptionsRaw, buildOptions>>

disk == <<manifest, fs, log>>

----------------------------------------------------------------------------
(* The file system *)

Dir == [dir |-> TRUE]

TextFile(lines) == [text |-> lines]

JsonFile(obj) == [json |-> obj]

IsDir(f, p) == p \in DOMAIN f /\ "dir" \in DOMAIN f[p]

Parent(p) == SubSeq(p, 1, Len(p) - 1)

\* process.cwd()
Cwd == <<>>

\* path.join: empty segments are dropped
Join(p, seg) == IF seg = "" THEN p ELSE Append(p, seg)

\* What is on disk when the program starts: a project of the user's with its
\* own package.json, and a directory named "A" with one too.
HostPackage == [name |-> "host", scripts |-> [build |-> "custom"]]

InitialFs ==
  (Cwd :> Dir) @@ (<<"package.json">> :> JsonFile(HostPackage))
  @@ (<<"A">> :> Dir) @@ (<<"A", "package.json">> :> JsonFile(HostPackage))

\* Variant: the existence test always answers no.
ExistsSyncNever(f, p) == FALSE

\* fs.existsSync
ExistsSync(f, p) == p \in DOMAIN f

\* A run of the synchronous tail of main(): the file system, the manifest
\* object under construction, the calls made, and the error thrown if any.
Run(f, m, l) == [fs |-> f, manifest |-> m, log |-> l, err |-> ""]

\* fs.mkdirSync (not recursive)
MkdirSync(r, p) ==
  IF r.err # "" THEN r
  ELSE IF ExistsSync(r.fs, p) THEN [r EXCEPT !.err = "EEXIST"]
  ELSE IF ~IsDir(r.fs, Parent(p)) THEN [r EXCEPT !.err = "ENOENT"]
  ELSE [r EXCEPT !.fs = Put(r.fs, p, Dir),
                 !.log = Append(r.log, [op |-> "mkdir", path |-> p])]

\* fs.writeFileSync
WriteFileSync(r, p, file) ==
  IF r.err # "" THEN r
  ELSE IF IsDir(r.fs, p) THEN [r EXCEPT !.err = "EISDIR"]
  ELSE IF ~IsDir(r.fs, Parent(p)) THEN [r EXCEPT !.err = "ENOENT"]
  ELSE [r EXCEPT !.fs = Put(r.fs, p, file),
                 !.log = Append(r.log, [op |-> "write", path |-> p])]

\* JSON.parse(fs.readFileSync(p, 'utf-8'))
ReadJson(r, p) ==
  IF r.err # "" THEN r
  ELSE IF "json" \notin DOMAIN r.fs[p] THEN [r EXCEPT !.err = "EISDIR"]
  ELSE [r EXCEPT !.log = Append(r.log, [op |-> "read", path |-> p, file |-> r.fs[p]])]

SetManifest(r, k, v) ==
  IF r.err # "" THEN r ELSE [r EXCEPT !.manifest = Put(r.manifest, k, v)]

----------------------------------------------------------------------------
(* The synchronous tail of main(), block by block *)

\* path.join(process.cwd(), extensionName)
ExtDir == Join(Cwd, Str(extensionName))

\* filePath: path.join(extDir, useSrcFolder ? 'src' : '', filename)
FilePath(filename) == Append(Join(ExtDir, IF useSrcFolder THEN "src" ELSE ""), filename)

\* Variant: the manifest goes where the sources go.
ManifestPathInSrc == FilePath("manifest.json")

ManifestPath == Append(ExtDir, "manifest.json")

\* Variant: the package.json of the directory the generator is started in.
PkgPathInCwd == Append(Cwd, "package.json")

PkgPath == Append(ExtDir, "package.json")

TodoPath == Append(ExtDir, "TODO.md")

UsesTs ==
  backgroundLang = "ts" \/ contentLang = "ts" \/ popupLang = "ts" \/ popupLang = "react"

JQueryCdnTag == "  <script src=\"https://code.jquery.com/jquery-3.6.0.min.js\"></script>"

\* html.replace('</head>', tag + '\n</head>'): the first occurrence only
RECURSIVE InjectBeforeHead(_, _)
InjectBeforeHead(lines, tag) ==
  IF lines = <<>> THEN <<>>
  ELSE IF Head(lines) = "</head>" THEN <<tag, "</head>">> \o Tail(lines)
  ELSE <<Head(lines)>> \o InjectBeforeHead(Tail(lines), tag)

WithJQueryCdn(lines) ==
  IF "jquery-cdn" \in buildOptions THEN InjectBeforeHead(lines, JQueryCdnTag) ELSE lines

StaticPage(title, heading) ==
  <<"<!DOCTYPE html>", "<html>", "<head>", "  <meta charset=\"utf-8\">",
    "  <title>" \o title \o "</title>", "</head>", "<body>",
    "  <h1>" \o heading \o "</h1>", "</body>", "</html>">>

PopupScriptTag ==
  "  <script src=\"popup.js\""
    \o (IF "esmodules" \in buildOptions THEN " type=\"module\"" ELSE "")
    \o "></script>"

PopupPage(body) ==
  <<"<!DOCTYPE html>", "<html>", "<head>", "  <meta charset=\"utf-8\">",
    "  <title>Popup</title>", "</head>", "<body>">>
  \o body \o <<PopupScriptTag, "</body>", "</html>">>

\* lines 203-212
ManifestBase ==
  LET base == [manifest_version |-> manifestVersion,
               name |-> Str(extensionName),
               version |-> "1.0.0",
               description |-> extensionDescription,
               permissions |-> permissions]
  IN IF DOMAIN icons # {} THEN Put(base, "icons", icons) ELSE base

\* Variant: the manifest entry is made but the script is not written.
BackgroundBlockNoFile(r) ==
  IF "background" \in additionalFeatures
  THEN SetManifest(r, "background",
                   IF manifestVersion = 3 THEN [service_worker |-> "background.js"]
                   ELSE [scripts |-> <<"background.js">>, persistent |-> FALSE])
  ELSE r

\* lines 214-229
BackgroundBlock(r) ==
  IF "background" \in additionalFeatures
  THEN LET bg == IF manifestVersion = 3
                 THEN IF "esmodules" \in buildOptions
                      THEN [service_worker |-> "background.js", type |-> "module"]
                      ELSE [service_worker |-> "background.js"]
                 ELSE [scripts |-> <<"background.js">>, persistent |-> FALSE]
           bgFileName == IF backgroundLang = "ts" THEN "background.ts" ELSE "background.js"
           comment == IF backgroundLang = "ts" THEN "// TypeScript background script"
                      ELSE "// JavaScript background script"
       IN WriteFileSync(SetManifest(r, "background", bg), FilePath(bgFileName),
                        TextFile(<<comment, "console.log('Background script running');">>))
  ELSE r

\* lines 231-242
ContentBlock(r) ==
  IF "content" \in additionalFeatures
  THEN LET cs == <<[matches |-> <<"<all_urls>">>, js |-> <<"content.js">>]>>
           contentFileName == IF contentLang = "ts" THEN "content.ts" ELSE "content.js"
           comment == IF contentLang = "ts" THEN "// TypeScript content script"
                      ELSE "// JavaScript content script"
       IN WriteFileSync(SetManifest(r, "content_scripts", cs), FilePath(contentFileName),
                        TextFile(<<comment, "console.log('Content script injected');">>))
  ELSE r

\* lines 244-268
OptionsBlock(r) ==
  IF "options" \in additionalFeatures
  THEN LET optionsHTML == WithJQueryCdn(StaticPage("Options", "Extension Options"))
           written == WriteFileSync(r, FilePath("options.html"), TextFile(optionsHTML))
       IN IF manifestVersion = 3
          THEN SetManifest(written, "options_ui",
                           [page |-> "options.html", open_in_tab |-> TRUE])
          ELSE SetManifest(written, "options_page", "options.html")
  ELSE r

\* Variant: the DevTools page is generated under both manifest versions.
DevtoolsBlockAnyVersion(r) ==
  IF "devtools" \in additionalFeatures
  THEN SetManifest(WriteFileSync(r, FilePath("devtools.html"),
                                 TextFile(WithJQueryCdn(StaticPage("DevTools", "DevTools Page")))),
                   "devtools_page", "devtools.html")
  ELSE r

\* lines 270-290
DevtoolsBlock(r) ==
  IF "devtools" \in additionalFeatures /\ manifestVersion = 2
  THEN LET devtoolsHTML == WithJQueryCdn(StaticPage("DevTools", "DevTools Page"))
       IN SetManifest(WriteFileSync(r, FilePath("devtools.html"), TextFile(devtoolsHTML)),
                      "devtools_page", "devtools.html")
  ELSE r

\* manifest.action = manifest.action || {} (browser_action under V2)
ActionKey == IF manifestVersion = 3 THEN "action" ELSE "browser_action"

\* lines 292-366
PopupBlock(r) ==
  IF "popup" \in additionalFeatures
  THEN LET stub == SetManifest(r, ActionKey, OrObj(r.manifest, ActionKey))
           m == SetManifest(stub, ActionKey,
                            Put(stub.manifest[ActionKey], "default_popup", "popup.html"))
           src == CASE popupLang = "html" ->
                         WriteFileSync(m, FilePath("popup.js"),
                                       TextFile(<<"console.log('Popup JS loaded');">>))
                    [] popupLang = "ts" ->
                         WriteFileSync(m, FilePath("popup.ts"),
                                       TextFile(<<"console.log('Popup TypeScript loaded');">>))
                    [] popupLang = "react" ->
                         WriteFileSync(m, FilePath("popup.tsx"),
                                       TextFile(<<"import React from 'react';",
                                                  "import ReactDOM from 'react-dom';",
                                                  "",
                                                  "const App = () => {",
                                                  "  return <h1>Hello from React Popup!</h1>;",
                                                  "};",
                                                  "",
                                                  "ReactDOM.render(<App />, document.getElementById('root'));">>))
           body == CASE popupLang = "html" -> <<"  <h1>Hello from Popup</h1>">>
                     [] popupLang = "ts" -> <<"  <h1>Popup (TypeScript)</h1>",
                                              "  <!-- Compile popup.ts to popup.js -->">>
                     [] popupLang = "react" -> <<"  <div id=\"root\"></div>",
                                                 "  <!-- Bundle popup.tsx to popup.js -->">>
       IN WriteFileSync(src, FilePath("popup.html"), TextFile(WithJQueryCdn(PopupPage(body))))
  ELSE SetManifest(r, ActionKey, OrObj(r.manifest, ActionKey))

\* lines 368-369
ManifestWrite(r) == WriteFileSync(r, ManifestPath, JsonFile(r.manifest))

\* lines 378-404: the merge of the generator's entries into pkg
MergePackage(pkg, name, opts, usesTs) ==
  LET named == Put(pkg, "name", OrStr(pkg, "name", Str(ReplaceWs(ToLowerCase(name)))))
      versioned == Put(named, "version", OrStr(named, "version", "1.0.0"))
      scripts0 == OrObj(versioned, "scripts")
      scripts == Put(scripts0, "build", OrStr(scripts0, "build", "tsc"))
      dev0 == OrObj(versioned, "devDependencies")
      deps0 == OrObj(versioned, "dependencies")
      WithTs(dev) == IF usesTs /\ OrStr(dev, "typescript", "") = ""
                     THEN Put(dev, "typescript", "^4.9.5") ELSE dev
      dev1 == IF "bundler-webpack" \in opts
              THEN WithTs(Put(Put(dev0, "webpack", OrStr(dev0, "webpack", "^5.0.0")),
                              "webpack-cli", OrStr(dev0, "webpack-cli", "^4.0.0")))
              ELSE dev0
      dev2 == IF "bundler-rollup" \in opts
              THEN WithTs(Put(Put(dev1, "rollup", OrStr(dev1, "rollup", "^2.0.0")),
                              "rollup-plugin-typescript2",
                              OrStr(dev1, "rollup-plugin-typescript2", "^0.34.1")))
              ELSE dev1
      deps1 == IF "jquery-npm" \in opts
               THEN Put(deps0, "jquery", OrStr(deps0, "jquery", "^3.6.0"))
               ELSE deps0
      dev3 == IF "jquery-npm" \in opts /\ usesTs
              THEN Put(dev2, "@types/jquery", OrStr(dev2, "@types/jquery", "^3.5.14"))
              ELSE dev2
  IN Put(Put(Put(versioned, "scripts", scripts), "devDependencies", dev3),
         "dependencies", deps1)

\* Variant: jQuery from the CDN is also entered as an npm dependency.
PackageBlockCdnAsNpm(r) ==
  IF Cardinality(buildOptions) > 0
  THEN LET found == ExistsSync(r.fs, PkgPath)
           rd == IF found THEN ReadJson(r, PkgPath) ELSE r
           pkg == IF found /\ rd.err = "" THEN r.fs[PkgPath].json ELSE EmptyObj
           opts == IF "jquery-cdn" \in buildOptions
                   THEN buildOptions \cup {"jquery-npm"} ELSE buildOptions
       IN WriteFileSync(rd, PkgPath, JsonFile(MergePackage(pkg, extensionName, opts, UsesTs)))
  ELSE r

\* lines 371-406
PackageBlock(r) ==
  IF Cardinality(buildOptions) > 0
  THEN LET found == ExistsSync(r.fs, PkgPath)
           rd == IF found THEN ReadJson(r, PkgPath) ELSE r
           pkg == IF found /\ rd.err = "" THEN r.fs[PkgPath].json ELSE EmptyObj
       IN WriteFileSync(rd, PkgPath,
                        JsonFile(MergePackage(pkg, extensionName, buildOptions, UsesTs)))
  ELSE r

NoBuildLine ==
  "- No build dependencies configured. Set up your build process manually if needed."

\* lines 408-442 (the backquotes around the npm commands are left out)
TodoLines ==
  <<"# TODO", "", "## Next Steps">>
  \o (IF "background" \in additionalFeatures
      THEN <<"- Edit your background script ("
             \o (IF backgroundLang = "ts" THEN "background.ts" ELSE "background.js")
             \o ").">>
      ELSE <<>>)
  \o (IF "content" \in additionalFeatures
      THEN <<"- Edit your content script ("
             \o (IF contentLang = "ts" THEN "content.ts" ELSE "content.js") \o ").">>
      ELSE <<>>)
  \o (IF "popup" \in additionalFeatures
      THEN CASE popupLang = "html" ->
                  <<"- Edit your popup HTML and JS files (popup.html and popup.js).">>
             [] popupLang = "ts" ->
                  <<"- Edit your popup files (popup.html and popup.ts) and compile to popup.js.">>
             [] popupLang = "react" ->
                  <<"- Edit your popup files (popup.html and popup.tsx) and bundle to popup.js.">>
      ELSE <<>>)
  \o (IF "options" \in additionalFeatures
      THEN <<"- Edit your options page (options.html).">> ELSE <<>>)
  \o (IF "devtools" \in additionalFeatures /\ manifestVersion = 2
      THEN <<"- Edit your DevTools page (devtools.html).">> ELSE <<>>)
  \o (IF Cardinality(buildOptions) > 0
      THEN <<"- Run npm install in your extension directory to install build dependencies.",
             "- Build your extension (for example, run npm run build) after editing your TypeScript or bundler configuration.">>
      ELSE <<NoBuildLine>>)
  \o <<"", "---",
       "Remember: Chrome extensions require JavaScript at runtime. If you write code in TypeScript or use ES modules, make sure to compile or bundle your code appropriately.">>

\* line 444
TodoBlock(r) == WriteFileSync(r, TodoPath, TextFile(TodoLines))

\* lines 191-196
MakeDirs(r) ==
  LET made == MkdirSync(r, ExtDir)
  IN IF useSrcFolder THEN MkdirSync(made, Append(ExtDir, "src")) ELSE made

\* Variant: the popup is generated before the options and DevTools pages.
SynthesizePopupEarly(r) ==
  TodoBlock(PackageBlock(ManifestWrite(DevtoolsBlock(OptionsBlock(PopupBlock(
    ContentBlock(BackgroundBlock(MakeDirs(r)))))))))

\* lines 191-444, in source order
Synthesize(r) ==
  TodoBlock(PackageBlock(ManifestWrite(PopupBlock(DevtoolsBlock(OptionsBlock(
    ContentBlock(BackgroundBlock(MakeDirs(r)))))))))

----------------------------------------------------------------------------
(* The steps of main() *)

Init ==
  /\ pc = "name"
  /\ outcome = "running"
  /\ extensionName = <<>>
  /\ extensionDescription = ""
  /\ manifestVersion = 0
  /\ permissions = {}
  /\ icons = EmptyObj
  /\ additionalFeatures = {}
  /\ popupLang = "html"
  /\ backgroundLang = "js"
  /\ contentLang = "js"
  /\ useSrcFolder = FALSE
  /\ buildOptionsRaw = Cancel
  /\ buildOptions = {}
  /\ manifest = EmptyObj
  /\ fs = InitialFs
  /\ log = <<>>

\* process.exit after outro / console.error
Exit(how) ==
  /\ pc' = "done"
  /\ outcome' = how

\* lines 18-26
PromptName ==
  /\ pc = "name"
  /\ \E extNameRaw \in TextResults(NameTexts) :
       IF extNameRaw.type # "string"
       THEN Exit("NoName") /\ UNCHANGED <<answers, disk>>
       ELSE /\ extensionName' = Trim(extNameRaw.value)
            /\ pc' = "desc"
            /\ UNCHANGED <<outcome, extensionDescription, manifestVersion, permissions,
                           icons, additionalFeatures, popupLang, backgroundLang,
                           contentLang, useSrcFolder, buildOptionsRaw, buildOptions, disk>>

\* lines 28-36
PromptDescription ==
  /\ pc = "desc"
  /\ \E extDescRaw \in TextResults(DescriptionTexts) :
       IF extDescRaw.type # "string"
       THEN Exit("NoDescription") /\ UNCHANGED <<answers, disk>>
       ELSE /\ extensionDescription' = Str(Trim(extDescRaw.value))
            /\ pc' = "version"
            /\ UNCHANGED <<outcome, extensionName, manifestVersion, permissions,
                           icons, additionalFeatures, popupLang, backgroundLang,
                           contentLang, useSrcFolder, buildOptionsRaw, buildOptions, disk>>

\* lines 38-49
PromptVersion ==
  /\ pc = "version"
  /\ \E versionRaw \in SelectResults({2, 3}, "number") :
       IF versionRaw.type # "number"
       THEN Exit("NoVersion") /\ UNCHANGED <<answers, disk>>
       ELSE /\ manifestVersion' = versionRaw.value
            /\ pc' = "perms"
            /\ UNCHANGED <<outcome, extensionName, extensionDescription, permissions,
                           icons, additionalFeatures, popupLang, backgroundLang,
                           contentLang, useSrcFolder, buildOptionsRaw, buildOptions, disk>>

\* lines 51-78
PromptPermissions ==
  /\ pc = "perms"
  /\ \E permissionsRaw \in SelectResults(PermissionSelections, "array") :
       IF Cardinality(ArrayOrEmpty(permissionsRaw)) = 0
       THEN Exit("NoPermissions") /\ UNCHANGED <<answers, disk>>
       ELSE /\ permissions' = ArrayOrEmpty(permissionsRaw)
            /\ pc' = "icons"
            /\ UNCHANGED <<outcome, extensionName, extensionDescription, manifestVersion,
                           icons, additionalFeatures, popupLang, backgroundLang,
                           contentLang, useSrcFolder, buildOptionsRaw, buildOptions, disk>>

\* line 81-83
PromptAddIcons ==
  /\ pc = "icons"
  /\ \E addIconsResp \in ConfirmResults :
       pc' = IF Truthy(addIconsResp) THEN "icon16" ELSE "features"
  /\ UNCHANGED <<outcome, answers, disk>>

\* const icon = typeof raw === 'string' ? raw.trim() : ''; if (icon) icons[size] = icon
IconStep(raw, size) ==
  LET icon == IF raw.type = "string" THEN Str(Trim(raw.value)) ELSE ""
  IN IF icon # "" THEN Put(icons, size, icon) ELSE icons

\* lines 84-86
PromptIcon16 ==
  /\ pc = "icon16"
  /\ \E icon16Raw \in TextResults(IconTexts("16")) : icons' = IconStep(icon16Raw, "16")
  /\ pc' = "icon48"
  /\ UNCHANGED <<outcome, extensionName, extensionDescription, manifestVersion,
                 permissions, additionalFeatures, popupLang, backgroundLang,
                 contentLang, useSrcFolder, buildOptionsRaw, buildOptions, disk>>

\* lines 88-90
PromptIcon48 ==
  /\ pc = "icon48"
  /\ \E icon48Raw \in TextResults(IconTexts("48")) : icons' = IconStep(icon48Raw, "48")
  /\ pc' = "icon128"
  /\ UNCHANGED <<outcome, extensionName, extensionDescription, manifestVersion,
                 permissions, additionalFeatures, popupLang, backgroundLang,
                 contentLang, useSrcFolder, buildOptionsRaw, buildOptions, disk>>

\* lines 92-94
PromptIcon128 ==
  /\ pc = "icon128"
  /\ \E icon128Raw \in TextResults(IconTexts("128")) : icons' = IconStep(icon128Raw, "128")
  /\ pc' = "features"
  /\ UNCHANGED <<outcome, extensionName, extensionDescription, manifestVersion,
                 permissions, additionalFeatures, popupLang, backgroundLang,
                 contentLang, useSrcFolder, buildOptionsRaw, buildOptions, disk>>

\* lines 97-108
PromptFeatures ==
  /\ pc = "features"
  /\ \E additionalFeaturesRaw \in SelectResults(SUBSET FeatureOptions, "array") :
       additionalFeatures' = ArrayOrEmpty(additionalFeaturesRaw)
  /\ pc' = "popupLang"
  /\ UNCHANGED <<outcome, extensionName, extensionDescription, manifestVersion,
                 permissions, icons, popupLang, backgroundLang,
                 contentLang, useSrcFolder, buildOptionsRaw, buildOptions, disk>>

\* lines 110-124
PromptPopupLang ==
  /\ pc = "popupLang"
  /\ IF "popup" \in additionalFeatures
     THEN \E popupLangRaw \in SelectResults(PopupLangs, "string") :
            popupLang' = IF popupLangRaw.type = "string" THEN popupLangRaw.value
                         ELSE popupLang
     ELSE popupLang' = popupLang
  /\ pc' = "backgroundLang"
  /\ UNCHANGED <<outcome, extensionName, extensionDescription, manifestVersion,
                 permissions, icons, additionalFeatures, backgroundLang,
                 contentLang, useSrcFolder, buildOptionsRaw, buildOptions, disk>>

\* lines 126-139
PromptBackgroundLang ==
  /\ pc = "backgroundLang"
  /\ IF "background" \in additionalFeatures
     THEN \E backgroundLangRaw \in SelectResults(ScriptLangs, "string") :
            backgroundLang' = IF backgroundLangRaw.type = "string"
                              THEN backgroundLangRaw.value ELSE backgroundLang
     ELSE backgroundLang' = backgroundLang
  /\ pc' = "contentLang"
  /\ UNCHANGED <<outcome, extensionName, extensionDescription, manifestVersion,
                 permissions, icons, additionalFeatures, popupLang,
                 contentLang, useSrcFolder, buildOptionsRaw, buildOptions, disk>>

\* lines 141-154
PromptContentLang ==
  /\ pc = "contentLang"
  /\ IF "content" \in additionalFeatures
     THEN \E contentLangRaw \in SelectResults(ScriptLangs, "string") :
            contentLang' = IF contentLangRaw.type = "string"
                           THEN contentLangRaw.value ELSE contentLang
     ELSE contentLang' = contentLang
  /\ pc' = "src"
  /\ UNCHANGED <<outcome, extensionName, extensionDescription, manifestVersion,
                 permissions, icons, additionalFeatures, popupLang,
                 backgroundLang, useSrcFolder, buildOptionsRaw, buildOptions, disk>>

\* lines 156-157
PromptSrcFolder ==
  /\ pc = "src"
  /\ \E useSrcFolderResp \in ConfirmResults : useSrcFolder' = Truthy(useSrcFolderResp)
  /\ pc' = "build"
  /\ UNCHANGED <<outcome, extensionName, extensionDescription, manifestVersion,
                 permissions, icons, additionalFeatures, popupLang,
                 backgroundLang, contentLang, buildOptionsRaw, buildOptions, disk>>

\* Variant: "none" only counts when it is the only selection.
NoneOverrideIfAlone(selected) == IF selected = {"none"} THEN {} ELSE selected \ {"none"}

\* lines 172-176: if (buildOptions.includes('none')) buildOptions.length = 0
NoneOverride(selected) == IF "none" \in selected THEN {} ELSE selected

\* lines 159-176
PromptBuildOptions ==
  /\ pc = "build"
  /\ \E raw \in SelectResults(BuildSelections, "array") :
       /\ buildOptionsRaw' = raw
       /\ buildOptions' = NoneOverride(ArrayOrEmpty(raw))
  /\ pc' = "confirm"
  /\ UNCHANGED <<outcome, extensionName, extensionDescription, manifestVersion,
                 permissions, icons, additionalFeatures, popupLang,
                 backgroundLang, contentLang, useSrcFolder, disk>>

\* lines 178-446: the confirmation and everything after it
Generate ==
  /\ pc = "confirm"
  /\ \E proceed \in ConfirmResults :
       IF ~Truthy(proceed)
       THEN Exit("Aborted") /\ UNCHANGED disk
       ELSE IF ExistsSync(fs, ExtDir)
       THEN Exit("DirectoryExists") /\ UNCHANGED disk
       ELSE LET r == Synthesize(Run(fs, ManifestBase, log))
            IN /\ fs' = r.fs
               /\ manifest' = r.manifest
               /\ log' = r.log
               /\ Exit(IF r.err = "" THEN "Created" ELSE r.err)
  /\ UNCHANGED answers

Next ==
  \/ PromptName
  \/ PromptDescription
  \/ PromptVersion
  \/ PromptPermissions
  \/ PromptAddIcons
  \/ PromptIcon16
  \/ PromptIcon48
  \/ PromptIcon128
  \/ PromptFeatures
  \/ PromptPopupLang
  \/ PromptBackgroundLang
  \/ PromptContentLang
  \/ PromptSrcFolder
  \/ PromptBuildOptions
  \/ Generate

Spec == Init /\ [][Next]_vars

----------------------------------------------------------------------------
(* Dependency resolution against a package.json that is already there *)

\* Values a user's package.json holds for an entry the generator also sets:
\* a customized one, or the empty string (an empty script, any version)
CustomValues == {"custom", ""}

Merge(f, g) == [x \in DOMAIN f \cup DOMAIN g |-> IF x \in DOMAIN f THEN f[x] ELSE g[x]]

Optional(key, values) == {EmptyObj} \cup {Put(EmptyObj, key, v) : v \in values}

ExistingDescriptors ==
  {Merge(n, Merge(v, Merge(sc, Merge(dev, dep)))) :
     n \in Optional("name", CustomValues),
     v \in Optional("version", {"custom"}),
     sc \in Optional("scripts", {EmptyObj, [test |-> "custom"]}
                                  \cup {[build |-> b] : b \in CustomValues}),
     dev \in Optional("devDependencies", {[typescript |-> t] : t \in CustomValues}
                                           \cup {[webpack |-> w] : w \in CustomValues}),
     dep \in Optional("dependencies", {[jquery |-> j] : j \in CustomValues})}

\* The generator at lines 371-406, in a project directory that holds a package.json
InitMerge ==
  /\ pc = "package"
  /\ outcome = "running"
  /\ extensionName = <<"A", " ", " ", "B">>
  /\ extensionDescription = "A"
  /\ manifestVersion = 3
  /\ permissions = {"storage"}
  /\ icons = EmptyObj
  /\ additionalFeatures = {"background"}
  /\ popupLang = "html"
  /\ backgroundLang \in ScriptLangs
  /\ contentLang = "js"
  /\ useSrcFolder = FALSE
  /\ \E selected \in BuildSelections :
       /\ selected # {}
       /\ "none" \notin selected
       /\ buildOptionsRaw = [type |-> "array", value |-> selected]
       /\ buildOptions = selected
  /\ manifest = EmptyObj
  /\ \E d \in ExistingDescriptors :
       fs = Put(Put(InitialFs, ExtDir, Dir), PkgPath, JsonFile(d))
  /\ log = <<>>

Resolves == Cardinality({i \in DOMAIN log : log[i].op = "write"})

\* lines 371-406, run again on what the last run left
ResolveDependencies ==
  /\ pc = "package"
  /\ Resolves < MaxResolves
  /\ LET r == PackageBlock(Run(fs, manifest, log))
     IN /\ fs' = r.fs
        /\ log' = r.log
  /\ UNCHANGED <<pc, outcome, answers, manifest>>

NextMerge == ResolveDependencies

SpecMerge == InitMerge /\ [][NextMerge]_vars

----------------------------------------------------------------------------
(* What is checked *)

Created == outcome = "Created"

WrittenSeq == SelectSeq(log, LAMBDA e : e.op = "write")

WrittenPaths == {WrittenSeq[i].path : i \in DOMAIN WrittenSeq}

FileName(p) == p[Len(p)]

Range(seq) == {seq[i] : i \in DOMAIN seq}

ManifestOnDisk == fs[ManifestPath].json

\* The filenames a manifest object refers to
Referenced(m) ==
  (IF Has(m, "background")
   THEN (IF Has(m.background, "service_worker") THEN {m.background.service_worker} ELSE {})
        \cup (IF Has(m.background, "scripts") THEN Range(m.background.scripts) ELSE {})
   ELSE {})
  \cup (IF Has(m, "content_scripts")
        THEN UNION {Range(m.content_scripts[i].js) : i \in DOMAIN m.content_scripts}
        ELSE {})
  \cup (IF Has(m, "options_page") THEN {m.options_page} ELSE {})
  \cup (IF Has(m, "options_ui") THEN {m.options_ui.page} ELSE {})
  \cup (IF Has(m, "devtools_page") THEN {m.devtools_page} ELSE {})
  \cup (IF Has(m, "action") /\ Has(m.action, "default_popup")
        THEN {m.action.default_popup} ELSE {})
  \cup (IF Has(m, "browser_action") /\ Has(m.browser_action, "default_popup")
        THEN {m.browser_action.default_popup} ELSE {})

\* The file that is written for a referenced filename: the TypeScript source
\* stands in for background.js and content.js when that language is chosen
AuthoredAs(f) ==
  IF f = "background.js" /\ backgroundLang = "ts" THEN "background.ts"
  ELSE IF f = "content.js" /\ contentLang = "ts" THEN "content.ts"
  ELSE f

\* C1 as stated: in a finished run every filename the manifest refers to
\* (relative to the manifest's directory, the project root) is the path of a
\* file the run wrote.
C1_ReferencedFilesWritten ==
  Created => \A f \in Referenced(ManifestOnDisk) : Append(ExtDir, f) \in WrittenPaths

\* C1 amended: in a finished run every filename the manifest refers to is
\* written by the run in the directory of the generated sources (the root, or
\* src/ with a source folder), under that name, or, for background.js and
\* content.js of a script authored in TypeScript, as background.ts and
\* content.ts; and every selected feature but DevTools under V3 is referred to.
C1_ReferencedFilesAuthored ==
  Created =>
    /\ \A f \in Referenced(ManifestOnDisk) :
         /\ FilePath(AuthoredAs(f)) \in WrittenPaths
         /\ "text" \in DOMAIN fs[FilePath(AuthoredAs(f))]
    /\ Referenced(ManifestOnDisk) =
         {n \in {"background.js", "content.js", "options.html", "devtools.html", "popup.html"} :
            \E feat \in additionalFeatures :
              /\ n \in {feat \o ".js", feat \o ".html"}
              /\ feat = "devtools" => manifestVersion = 2}

C1_Witness ==
  /\ Created
  /\ useSrcFolder
  /\ additionalFeatures = FeatureOptions
  /\ backgroundLang = "ts"
  /\ contentLang = "js"
  /\ manifestVersion = 2
  /\ Referenced(ManifestOnDisk) =
       {"background.js", "content.js", "options.html", "devtools.html", "popup.html"}

\* C2: a written V3 manifest has no devtools_page, browser_action,
\* options_page or background.scripts, a written V2 manifest has no
\* background.service_worker, action or options_ui; without the popup feature
\* the version's own action entry is the empty object.
C2_NoCrossVersionFields ==
  Created =>
    LET m == ManifestOnDisk
        bg == OrObj(m, "background")
    IN /\ m = manifest
       /\ m.manifest_version = manifestVersion
       /\ m.manifest_version = 3 =>
            /\ DOMAIN m \cap {"devtools_page", "browser_action", "options_page"} = {}
            /\ ~Has(bg, "scripts")
            /\ Has(m, "action")
       /\ m.manifest_version = 2 =>
            /\ DOMAIN m \cap {"action", "options_ui"} = {}
            /\ DOMAIN bg \cap {"service_worker", "type"} = {}
            /\ Has(m, "browser_action")
       /\ "popup" \notin additionalFeatures => m[ActionKey] = EmptyObj

C2_Witness ==
  /\ Created
  /\ manifestVersion = 3
  /\ additionalFeatures = {"background", "options", "devtools"}
  /\ "esmodules" \in buildOptions
  /\ DOMAIN ManifestOnDisk =
       {"manifest_version", "name", "version", "description", "permissions",
        "background", "options_ui", "action"}

\* C3 as stated: a run whose trimmed name or trimmed description is empty
\* creates nothing.
C3_BlankTextRejected ==
  (extensionName = <<>> \/ extensionDescription = "") => ~Created /\ fs = InitialFs

ErrorOutcomes ==
  {"NoName", "NoDescription", "NoVersion", "NoPermissions", "Aborted", "DirectoryExists"}

\* C4: a run that ended in one of the errors or in the abort has stopped with
\* the file system as it found it, and whenever the file system was touched
\* every check had passed: the run is a finished one with a version, a
\* permission, and a first effect that is the creation of a target directory
\* that did not exist.
C4_FailFastNoPartialOutput ==
  /\ outcome \in ErrorOutcomes => pc = "done" /\ fs = InitialFs /\ log = <<>>
  /\ (fs # InitialFs \/ log # <<>>) =>
       /\ Created
       /\ manifestVersion \in {2, 3}
       /\ permissions # {}
       /\ ExtDir \notin DOMAIN InitialFs
       /\ log[1] = [op |-> "mkdir", path |-> ExtDir]
       /\ DOMAIN InitialFs \subseteq DOMAIN fs
       /\ \A p \in DOMAIN InitialFs : fs[p] = InitialFs[p]

C4_Witness ==
  /\ outcome = "DirectoryExists"
  /\ extensionName = <<"A">>
  /\ buildOptions # {}
  /\ additionalFeatures # {}

ModuleAttribute == "  <script src=\"popup.js\" type=\"module\"></script>"

NewTextFiles == {p \in DOMAIN fs \ DOMAIN InitialFs : "text" \in DOMAIN fs[p]}

NoneSelected == buildOptionsRaw.type = "array" /\ "none" \in buildOptionsRaw.value

\* C5: once "none" is among the selected build options the effective set is
\* empty, and a finished run has written no package.json, no type:"module", no
\* module attribute and no jQuery CDN tag, and TODO.md has the line about no
\* build dependencies.
C5_NoneWins ==
  NoneSelected =>
    /\ buildOptions = {}
    /\ Created =>
         /\ PkgPath \notin DOMAIN fs
         /\ ~Has(OrObj(ManifestOnDisk, "background"), "type")
         /\ \A p \in NewTextFiles :
              Range(fs[p].text) \cap {ModuleAttribute, JQueryCdnTag} = {}
         /\ NoBuildLine \in Range(fs[TodoPath].text)

C5_Witness ==
  /\ Created
  /\ buildOptionsRaw = [type |-> "array", value |-> {"none", "esmodules"}]
  /\ manifestVersion = 3
  /\ {"background", "popup", "options"} \subseteq additionalFeatures

ArtifactNames ==
  {"background.js", "background.ts", "content.js", "content.ts", "options.html",
   "devtools.html", "popup.js", "popup.ts", "popup.tsx", "popup.html"}

\* C7: in a finished run each background, content, options, devtools and
\* popup file lies directly in src/ when a source folder is used and directly
\* in the project root when not, and manifest.json is written in the project
\* root and nowhere else.
C7_SourceFolderAsymmetry ==
  Created =>
    /\ \A p \in WrittenPaths :
         /\ FileName(p) \in ArtifactNames =>
              (Parent(p) = Append(ExtDir, "src") <=> useSrcFolder)
              /\ (Parent(p) = ExtDir <=> ~useSrcFolder)
         /\ FileName(p) = "manifest.json" => p = Append(ExtDir, "manifest.json")
    /\ Append(ExtDir, "manifest.json") \in WrittenPaths
    /\ IsDir(fs, Append(ExtDir, "src")) <=> useSrcFolder

C7_Witness ==
  /\ Created
  /\ useSrcFolder
  /\ additionalFeatures = FeatureOptions
  /\ manifestVersion = 2
  /\ Cardinality({p \in WrittenPaths : Parent(p) = Append(ExtDir, "src")}) = 6

\* The place of a written file in the order of generation
Rank(p) ==
  CASE FileName(p) \in {"background.js", "background.ts"} -> 1
    [] FileName(p) \in {"content.js", "content.ts"} -> 2
    [] FileName(p) = "options.html" -> 3
    [] FileName(p) = "devtools.html" -> 4
    [] FileName(p) \in {"popup.js", "popup.ts", "popup.tsx", "popup.html"} -> 5
    [] FileName(p) = "manifest.json" -> 6
    [] OTHER -> 7

\* C8: in a finished run the files are written in the order background,
\* content, options, devtools, popup, then manifest.json, and no path is
\* written twice.
C8_OrderedNoDuplicates ==
  Created =>
    \A i, j \in DOMAIN WrittenSeq :
      i < j => /\ Rank(WrittenSeq[i].path) <= Rank(WrittenSeq[j].path)
               /\ WrittenSeq[i].path # WrittenSeq[j].path

C8_Witness ==
  /\ Created
  /\ additionalFeatures = FeatureOptions
  /\ manifestVersion = 2
  /\ popupLang = "react"
  /\ [i \in DOMAIN WrittenSeq |-> Rank(WrittenSeq[i].path)] = <<1, 2, 3, 4, 5, 5, 6, 7>>

NoFile == [absent |-> TRUE]

PackageOnDisk == IF PkgPath \in DOMAIN fs THEN fs[PkgPath] ELSE NoFile

\* The package descriptor a run with build options opts produces from nothing
PackageFor(opts) ==
  IF opts # {} THEN JsonFile(MergePackage(EmptyObj, extensionName, opts, UsesTs))
  ELSE NoFile

\* C9 as stated: the package.json of a finished run (whether there is one and
\* what it holds) is the one the same options give without jquery-cdn, and the
\* one they give with it.
C9_JQueryCdnNoInfluence ==
  Created =>
    /\ PackageOnDisk = PackageFor(buildOptions \ {"jquery-cdn"})
    /\ PackageOnDisk = PackageFor(buildOptions \cup {"jquery-cdn"})

\* C9 amended: when some build option other than jquery-cdn is selected, the
\* package.json of a finished run is the one the same options give without and
\* with jquery-cdn; when jquery-cdn is the only build option a package.json
\* holding only the defaults is written, and none when no option is selected.
C9_JQueryCdnNoInfluenceOnContents ==
  Created =>
    /\ buildOptions \ {"jquery-cdn"} # {} =>
         /\ PackageOnDisk = PackageFor(buildOptions \ {"jquery-cdn"})
         /\ PackageOnDisk = PackageFor(buildOptions \cup {"jquery-cdn"})
    /\ buildOptions = {"jquery-cdn"} =>
         PackageOnDisk =
           JsonFile([name |-> Str(ReplaceWs(ToLowerCase(extensionName))),
                     version |-> "1.0.0",
                     scripts |-> [build |-> "tsc"],
                     devDependencies |-> EmptyObj,
                     dependencies |-> EmptyObj])
    /\ buildOptions = {} => PackageOnDisk = NoFile

C9_Witness ==
  /\ Created
  /\ buildOptions = {"jquery-cdn", "bundler-webpack"}
  /\ UsesTs
  /\ "options" \in additionalFeatures
  /\ JQueryCdnTag \in Range(fs[FilePath("options.html")].text)
  /\ DOMAIN PackageOnDisk.json.devDependencies = {"webpack", "webpack-cli", "typescript"}

\* C10: a finished run created its target directory itself, as its first
\* effect, where nothing was; it read no package.json, and the package.json it
\* wrote holds the generator's defaults for the chosen options and nothing else.
C10_NoExistingPackageRead ==
  Created =>
    /\ ExtDir \notin DOMAIN InitialFs
    /\ PkgPath \notin DOMAIN InitialFs
    /\ log[1] = [op |-> "mkdir", path |-> ExtDir]
    /\ \A i \in DOMAIN log : log[i].op # "read"
    /\ PackageOnDisk = PackageFor(buildOptions)

C10_Witness ==
  /\ Created
  /\ buildOptions = {"package", "jquery-npm"}
  /\ "json" \in DOMAIN PackageOnDisk
  /\ PackageOnDisk.json.name = "a-b"
  /\ PackageOnDisk.json.dependencies = [jquery |-> "^3.6.0"]

\* The entries of the descriptor before that the descriptor after still holds
Kept(original, result) ==
  /\ \A k \in DOMAIN original \cap {"name", "version"} :
       Has(result, k) /\ result[k] = original[k]
  /\ \A k \in DOMAIN original \cap {"scripts", "devDependencies", "dependencies"} :
       \A j \in DOMAIN original[k] :
         Has(result, k) /\ Has(result[k], j) /\ result[k][j] = original[k][j]

====
